---- MODULE Spec2Model ----
(***************************************************************************)
(* The event-driven backtest engine of                                     *)
(* ml-service/src/backtesting/backtest_engine.py (class BacktestEngine):   *)
(* the bar loop of run_backtest, the order / position / trade ledger, the  *)
(* execution model, the risk overlay, the signal interpreter, the          *)
(* end-of-run liquidation and the walk-forward driver.                     *)
(*                                                                         *)
(* Python floats are modelled as exact rationals <<n, d>> in lowest terms  *)
(* with d > 0; Python None in a float slot is NoneR, in a timestamp slot   *)
(* NoneT.  A data frame row is a pandas Series indexed by the frame's      *)
(* columns, so `symbol in bar` is `symbol \in columns` for every row.      *)
(***************************************************************************)
EXTENDS Integers, Sequences, FiniteSets, TLC

(***************************************************************************)
(* Bounds of the model.                                                    *)
(***************************************************************************)
\* the longest data frame handed to run_backtest (len(data))
MaxBars == 3

\* the longest data frame handed to run_walk_forward
MaxDays == 4

\* the most windows of one run_walk_forward that are followed
MaxWindows == 2

(***************************************************************************)
(* float arithmetic, as exact rationals                                    *)
(***************************************************************************)
Abs(x) == IF x < 0 THEN -x ELSE x

RECURSIVE GCD(_, _)
GCD(a, b) == IF b = 0 THEN a ELSE GCD(b, a % b)

\* the rational n/d (d > 0) in lowest terms
Rat(n, d) == LET g == GCD(Abs(n), d) IN <<n \div g, d \div g>>

\* an int used as a float
R(n) == <<n, 1>>

\* Python None where a float is expected (a denominator of 0 is no rational)
NoneR == <<0, 0>>

\* Python None where a timestamp is expected
NoneT == -1

RAdd(a, b) ==
  LET g == GCD(a[2], b[2])
  IN  Rat(a[1] * (b[2] \div g) + b[1] * (a[2] \div g), (a[2] \div g) * b[2])

RNeg(a) == <<-a[1], a[2]>>

RSub(a, b) == RAdd(a, RNeg(b))

RMul(a, b) ==
  LET g1 == GCD(Abs(a[1]), b[2])
      g2 == GCD(Abs(b[1]), a[2])
  IN  IF a[1] = 0 \/ b[1] = 0 THEN <<0, 1>>
      ELSE <<(a[1] \div g1) * (b[1] \div g2), (a[2] \div g2) * (b[2] \div g1)>>

\* a / b for b # 0
RDiv(a, b) ==
  IF b[1] > 0 THEN RMul(a, <<b[2], b[1]>>) ELSE RMul(a, <<-b[2], -b[1]>>)

RAbs(a) == <<Abs(a[1]), a[2]>>

RLt(a, b) ==
  LET g == GCD(a[2], b[2]) IN a[1] * (b[2] \div g) < b[1] * (a[2] \div g)

RLe(a, b) ==
  LET g == GCD(a[2], b[2]) IN a[1] * (b[2] \div g) <= b[1] * (a[2] \div g)

\* Python's min(a, b): b only when b < a
RMin(a, b) == IF RLt(b, a) THEN b ELSE a

(***************************************************************************)
(* BacktestConfig, and the inputs of a run                                 *)
(***************************************************************************)
\* a BacktestConfig (market_impact_coef and max_leverage are read nowhere)
Config(cap, rate, bps, mps, sl, tp, delay, market, train, test, step) ==
  [initial_capital |-> cap, commission_rate |-> rate, slippage_bps |-> bps,
   max_position_size |-> mps, stop_loss_pct |-> sl, take_profit_pct |-> tp,
   execution_delay |-> delay, use_market_orders |-> market,
   train_period_days |-> train, test_period_days |-> test, step_days |-> step]

\* the configurations a single run is checked with: market orders with
\* commission and slippage; a risk overlay (stop loss 50 %, take profit
\* 100 %) without slippage, so that a return can sit on a threshold, with
\* an execution_delay of 0, 1 and 2 bars
RunConfigs ==
  { Config(R(100), Rat(1, 2), R(5000), Rat(1, 4), NoneR, NoneR, 0, TRUE, 1, 1, 1),
    Config(R(100), Rat(1, 2), R(0), Rat(1, 2), R(50), R(100), 0, TRUE, 1, 1, 1),
    Config(R(100), Rat(1, 2), R(0), Rat(1, 2), R(50), R(100), 1, TRUE, 1, 1, 1),
    Config(R(100), Rat(1, 2), R(0), Rat(1, 2), R(50), R(100), 2, TRUE, 1, 1, 1) }

\* the configurations a walk-forward is checked with: windows of one
\* training row and two test rows that overlap (step 1) or follow each
\* other (step 2)
WalkForwardConfigs ==
  { Config(R(100), Rat(1, 2), R(5000), Rat(1, 4), NoneR, NoneR, 0, TRUE, 1, 2, 1),
    Config(R(100), Rat(1, 2), R(0), Rat(1, 2), R(50), R(100), 0, TRUE, 1, 2, 2) }

\* the reference prices a row can hold
Prices == {R(1), R(2)}

\* the rows of a data frame with columns cols: a pandas Series indexed by cols
Rows(cols) == [cols -> Prices]

\* a row that is left open: it reads as any row
AnyRow(cols) == [s \in cols |-> NoneR]

\* what a strategy callable returns: None, or a dict with 'symbol', 'action'
\* and an optional 'quantity'
Signal(symbol, action, quantity) ==
  [symbol |-> symbol, action |-> action, quantity |-> quantity]

NoSignal == Signal("", "none", NoneR)

\* a strategy callable, as the set of signals it may return
AnyStrategy ==
  { Signal("A", "buy", NoneR), Signal("A", "buy", R(10)), Signal("B", "buy", NoneR),
    Signal("A", "sell", NoneR), Signal("A", "sell", R(10)),
    Signal("A", "sell", R(1000)), Signal("B", "sell", NoneR),
    Signal("A", "hold", NoneR), Signal("X", "buy", NoneR),
    Signal("A", "buy", R(0)), Signal("A", "sell", R(0)) }

\* the strategy callables a strategy factory may return
FactoryStrategies ==
  { {Signal("A", "buy", NoneR), Signal("A", "sell", NoneR)},
    {Signal("A", "buy", R(10)), Signal("A", "sell", R(1000))} }

(***************************************************************************)
(* The state of a BacktestEngine and of the calls in progress              *)
(***************************************************************************)
VARIABLES
  config,            \* self.config
  capital,           \* self.capital
  positions,         \* self.positions: a dict, as the sequence of its values
                     \* in insertion order
  orders,            \* self.orders
  trades,            \* self.trades
  equity_curve,      \* self.equity_curve
  timestamps,        \* self.timestamps
  total_pnl,         \* self.total_pnl
  total_commission,  \* self.total_commission
  total_slippage,    \* self.total_slippage
  columns,           \* data.columns: the symbols that have a price
  data,              \* the data frame: row index -> row (or AnyRow)
  strategy,          \* the strategy callable of the run
  lo,                \* run_backtest's data is rows lo .. lo + nbars - 1
  nbars,             \* len(data) in run_backtest
  ran_before,        \* whether run_backtest had been called on this engine
                     \* before the call at hand
  pc,                \* the statement control is at
  i,                 \* the loop index of run_backtest
  bar,               \* the row at hand: [name |-> its index label, px |-> the row]
  oi,                \* _execute_orders: the loop is at self.orders[oi - 1]
  closing,           \* _close_all_positions: list(self.positions.items())
  ci,                \* _close_all_positions: the loop is at closing[ci - 1]
  result,            \* what run_backtest returned
  placed_by,         \* for each order, who placed it: "risk", "signal", "close"
  strategy_signal,   \* run_backtest: what the strategy returned at the bar at hand
  calls,             \* the calls of the strategy so far: the bar index, the
                     \* index labels of the rows it was handed and whether
                     \* it raised
  caller,            \* who called run_backtest: "main" or "walk_forward"
  start_idx,         \* run_walk_forward: start_idx
  results,           \* run_walk_forward: results
  aggregated         \* what run_walk_forward returned

ledger == <<capital, positions, orders, trades, equity_curve, timestamps,
            total_pnl, total_commission, total_slippage>>

inputs == <<config, columns, data, strategy, lo, nbars, ran_before>>

control == <<pc, i, bar, oi, closing, ci, result, placed_by, strategy_signal,
             calls>>

walk == <<caller, start_idx, results, aggregated>>

vars == <<ledger, inputs, control, walk>>

\* no bar at hand
NoBar == [name |-> NoneT, px |-> <<>>]

\* no result yet
NoResult == [returned |-> FALSE]

\* BacktestEngine.__init__
Constructed ==
  /\ capital = config.initial_capital
  /\ positions = <<>>
  /\ orders = <<>>
  /\ trades = <<>>
  /\ equity_curve = <<capital>>
  /\ timestamps = <<>>
  /\ total_pnl = R(0)
  /\ total_commission = R(0)
  /\ total_slippage = R(0)

\* a constructed engine, about to be handed a frame of 1 .. MaxBars rows
Init ==
  /\ config \in RunConfigs
  /\ Constructed
  /\ columns = {"A", "B"}
  /\ nbars \in 1..MaxBars
  /\ lo = 0
  /\ ran_before = FALSE
  /\ data = [j \in 0..(nbars - 1) |-> AnyRow(columns)]
  /\ strategy = AnyStrategy
  /\ pc = "idle"
  /\ i = 0
  /\ bar = NoBar
  /\ oi = 1
  /\ closing = <<>>
  /\ ci = 1
  /\ result = NoResult
  /\ placed_by = <<>>
  /\ strategy_signal = NoSignal
  /\ calls = <<>>
  /\ caller = "main"
  /\ start_idx = 0
  /\ results = <<>>
  /\ aggregated = NoResult

(***************************************************************************)
(* The ledger                                                              *)
(***************************************************************************)
\* Order(symbol, side, quantity, price, timestamp): a Pending order
Order(symbol, side, quantity, price, timestamp) ==
  [symbol |-> symbol, side |-> side, quantity |-> quantity, price |-> price,
   timestamp |-> timestamp, status |-> "pending", fill_price |-> NoneR,
   fill_timestamp |-> NoneT]

\* _place_order: the order is appended to self.orders
PlaceOrder(os, symbol, side, quantity, price, timestamp) ==
  Append(os, Order(symbol, side, quantity, price, timestamp))

\* `symbol in bar`
InBar(symbol, b) == symbol \in DOMAIN b.px

\* bar.get(symbol, default)
BarGet(b, symbol, default) == IF InBar(symbol, b) THEN b.px[symbol] ELSE default

\* the place of symbol's Position in self.positions (0: `symbol not in
\* self.positions`)
PosIndex(ps, symbol) ==
  LET S == {k \in 1..Len(ps) : ps[k].symbol = symbol}
  IN  IF S = {} THEN 0 ELSE CHOOSE k \in S : \A j \in S : k <= j

\* del self.positions[symbol], for the Position at place k
RemoveAt(ps, k) == SubSeq(ps, 1, k - 1) \o SubSeq(ps, k + 1, Len(ps))

\* _update_positions: every Position whose symbol is in the bar is marked
UpdatePositions(ps, b) ==
  [k \in 1..Len(ps) |->
     IF InBar(ps[k].symbol, b)
     THEN [ps[k] EXCEPT
             !.current_price = b.px[ps[k].symbol],
             !.unrealized_pnl =
                RMul(RSub(b.px[ps[k].symbol], ps[k].entry_price), ps[k].quantity)]
     ELSE ps[k]]

\* _calculate_equity
RECURSIVE PositionValue(_, _, _)
PositionValue(ps, k, b) ==
  IF k > Len(ps) THEN R(0)
  ELSE RAdd(IF InBar(ps[k].symbol, b)
            THEN RMul(ps[k].quantity, b.px[ps[k].symbol]) ELSE R(0),
            PositionValue(ps, k + 1, b))

CalculateEquity(cap, ps, b) == RAdd(cap, PositionValue(ps, 1, b))

(***************************************************************************)
(* The execution model: one order of _execute_orders' loop                 *)
(***************************************************************************)
\* (mutant) the fill starts from the price of the bar of the fill
FillPriceFromBar(order) ==
  LET price == BarGet(bar, order.symbol, order.price)
  IN  IF config.use_market_orders
      THEN LET slippage == RDiv(config.slippage_bps, R(10000))
           IN  IF order.side = "buy"
               THEN RMul(price, RAdd(R(1), slippage))
               ELSE RMul(price, RSub(R(1), slippage))
      ELSE price

\* the fill price of an order (lines 280-287)
FillPrice(order) ==
  IF config.use_market_orders
  THEN LET slippage == RDiv(config.slippage_bps, R(10000))
       IN  IF order.side = "buy"
           THEN RMul(order.price, RAdd(R(1), slippage))
           ELSE RMul(order.price, RSub(R(1), slippage))
  ELSE order.price

\* (mutant) the commission is taken on the requested price
CommissionOnRequested(order, fill_price) ==
  RAbs(RMul(RMul(order.quantity, order.price), config.commission_rate))

\* the commission of a fill (line 290)
Commission(order, fill_price) ==
  RAbs(RMul(RMul(order.quantity, fill_price), config.commission_rate))

\* (mutant) the slippage of a fill is signed: a Sell takes from the total
SlippageCostSigned(order, fill_price) ==
  RMul(RSub(fill_price, order.price), RAbs(order.quantity))

\* the slippage a fill adds to total_slippage (line 298)
SlippageCost(order, fill_price) ==
  RMul(RAbs(RSub(fill_price, order.price)), RAbs(order.quantity))

\* (mutant) the entry price of a Position is the price of its last Buy fill
AddedEntryPriceOfLastFill(pos, order, fill_price) == fill_price

\* (mutant) the entry price is weighted with the requested price
AddedEntryPriceAtRequested(pos, order, fill_price) ==
  RDiv(RAdd(RMul(pos.entry_price, pos.quantity),
            RMul(order.price, order.quantity)),
       RAdd(pos.quantity, order.quantity))

\* the entry price of a Position after a Buy fill adds to it (lines 305-309)
AddedEntryPrice(pos, order, fill_price) ==
  LET total_quantity == RAdd(pos.quantity, order.quantity)
  IN  RDiv(RAdd(RMul(pos.entry_price, pos.quantity),
                RMul(fill_price, order.quantity)),
           total_quantity)

\* (mutant) a Buy fill that adds to a Position stamps it anew
BuyPositionsRestamped(ps, order, fill_price, fill_timestamp, k) ==
  LET at == PosIndex(ps, order.symbol)
  IN  IF at # 0
      THEN LET pos == ps[at]
           IN  [ps EXCEPT ![at] =
                  [pos EXCEPT
                     !.entry_price = AddedEntryPrice(pos, order, fill_price),
                     !.quantity = RAdd(pos.quantity, order.quantity),
                     !.entry_timestamp = fill_timestamp]]
      ELSE Append(ps, [symbol |-> order.symbol, quantity |-> order.quantity,
                       entry_price |-> fill_price,
                       entry_timestamp |-> fill_timestamp,
                       current_price |-> fill_price, unrealized_pnl |-> R(0),
                       oid |-> k])

\* a Buy fill on self.positions (lines 302-319); k is the order's place in
\* self.orders and stands for the identity of a Position object it creates
BuyPositions(ps, order, fill_price, fill_timestamp, k) ==
  LET at == PosIndex(ps, order.symbol)
  IN  IF at # 0
      THEN LET pos == ps[at]
           IN  [ps EXCEPT ![at] =
                  [pos EXCEPT
                     !.entry_price = AddedEntryPrice(pos, order, fill_price),
                     !.quantity = RAdd(pos.quantity, order.quantity)]]
      ELSE Append(ps, [symbol |-> order.symbol, quantity |-> order.quantity,
                       entry_price |-> fill_price,
                       entry_timestamp |-> fill_timestamp,
                       current_price |-> fill_price, unrealized_pnl |-> R(0),
                       oid |-> k])

\* (mutant) a Sell fill closes what the order asks for
CloseQuantityRequested(order, pos) == order.quantity

\* the quantity a Sell fill closes (line 328)
CloseQuantity(order, pos) == RMin(order.quantity, pos.quantity)

\* (mutant) the Trade takes the mark of the Position as its entry price
SellTradeEntryAtMark(pos, order, fill_price, fill_timestamp, commission) ==
  LET close_quantity == CloseQuantity(order, pos)
  IN  [symbol |-> order.symbol, side |-> "sell", quantity |-> close_quantity,
       entry_price |-> pos.current_price, exit_price |-> fill_price,
       entry_timestamp |-> pos.entry_timestamp,
       exit_timestamp |-> fill_timestamp,
       pnl |-> RSub(RMul(RSub(fill_price, pos.entry_price), close_quantity),
                    commission),
       return_pct |-> RMul(RSub(RDiv(fill_price, pos.entry_price), R(1)), R(100)),
       holding_period |-> fill_timestamp - pos.entry_timestamp]

\* (mutant) the pnl of the Trade is gross of the commission
SellTradeGross(pos, order, fill_price, fill_timestamp, commission) ==
  LET close_quantity == CloseQuantity(order, pos)
  IN  [symbol |-> order.symbol, side |-> "sell", quantity |-> close_quantity,
       entry_price |-> pos.entry_price, exit_price |-> fill_price,
       entry_timestamp |-> pos.entry_timestamp,
       exit_timestamp |-> fill_timestamp,
       pnl |-> RMul(RSub(fill_price, pos.entry_price), close_quantity),
       return_pct |-> RMul(RSub(RDiv(fill_price, pos.entry_price), R(1)), R(100)),
       holding_period |-> fill_timestamp - pos.entry_timestamp]

\* (mutant) the pnl is taken on the quantity of the order
SellTradeOnOrderQuantity(pos, order, fill_price, fill_timestamp, commission) ==
  [symbol |-> order.symbol, side |-> "sell",
   quantity |-> CloseQuantity(order, pos),
   entry_price |-> pos.entry_price, exit_price |-> fill_price,
   entry_timestamp |-> pos.entry_timestamp, exit_timestamp |-> fill_timestamp,
   pnl |-> RSub(RMul(RSub(fill_price, pos.entry_price), order.quantity),
                commission),
   return_pct |-> RMul(RSub(RDiv(fill_price, pos.entry_price), R(1)), R(100)),
   holding_period |-> fill_timestamp - pos.entry_timestamp]

\* the Trade a Sell fill records (lines 329-343)
SellTrade(pos, order, fill_price, fill_timestamp, commission) ==
  LET close_quantity == CloseQuantity(order, pos)
  IN  [symbol |-> order.symbol, side |-> "sell", quantity |-> close_quantity,
       entry_price |-> pos.entry_price, exit_price |-> fill_price,
       entry_timestamp |-> pos.entry_timestamp,
       exit_timestamp |-> fill_timestamp,
       pnl |-> RSub(RMul(RSub(fill_price, pos.entry_price), close_quantity),
                    commission),
       return_pct |-> RMul(RSub(RDiv(fill_price, pos.entry_price), R(1)), R(100)),
       holding_period |-> fill_timestamp - pos.entry_timestamp]

\* (mutant) a Position is deleted only below zero
ExhaustedBelowZero(quantity) == RLt(quantity, R(0))

\* whether a Position of this quantity is deleted (line 351)
Exhausted(quantity) == RLe(quantity, R(0))

\* a Sell fill on self.positions, for the Position at place `at` (lines 350-352)
SellPositions(ps, at, close_quantity) ==
  LET left == RSub(ps[at].quantity, close_quantity)
  IN  IF Exhausted(left) THEN RemoveAt(ps, at)
      ELSE [ps EXCEPT ![at].quantity = left]

\* (mutant) a call of _execute_orders fills one order and ends
NextPendingOnce(os, from) ==
  LET S == {k \in from..Len(os) : os[k].status = "pending"}
  IN  IF S = {} \/ from > 1 THEN 0 ELSE CHOOSE k \in S : \A j \in S : k <= j

\* (mutant) an order waits execution_delay more bars for its fill
NextPendingAfterDelay(os, from) ==
  LET S == {k \in from..Len(os) :
              /\ os[k].status = "pending"
              /\ os[k].timestamp + config.execution_delay < bar.name}
  IN  IF S = {} THEN 0 ELSE CHOOSE k \in S : \A j \in S : k <= j

\* (mutant) the loop fills every order it passes, Pending or not
NextOfAnyStatus(os, from) == IF from <= Len(os) THEN from ELSE 0

\* the next order of the loop that is Pending, from place `from` on (0: none)
NextPending(os, from) ==
  LET S == {k \in from..Len(os) : os[k].status = "pending"}
  IN  IF S = {} THEN 0 ELSE CHOOSE k \in S : \A j \in S : k <= j

(***************************************************************************)
(* The risk overlay and the signal interpreter                             *)
(***************************************************************************)
\* (current_price / entry_price - 1) * 100 (line 364)
ReturnPct(current_price, entry_price) ==
  RMul(RSub(RDiv(current_price, entry_price), R(1)), R(100))

\* (mutant) the stop loss needs a return below the threshold
StopLossHitBelow(return_pct) ==
  /\ config.stop_loss_pct # NoneR
  /\ RLt(return_pct, RNeg(config.stop_loss_pct))

\* the stop-loss test (line 367)
StopLossHit(return_pct) ==
  /\ config.stop_loss_pct # NoneR
  /\ RLe(return_pct, RNeg(config.stop_loss_pct))

\* the take-profit test (line 372)
TakeProfitHit(return_pct) ==
  /\ config.take_profit_pct # NoneR
  /\ RLe(config.take_profit_pct, return_pct)

\* the orders _check_risk_management places for the Positions from place k
\* on, in the order it places them (lines 359-374)
RECURSIVE RiskOrders(_, _, _)
RiskOrders(ps, k, b) ==
  IF k > Len(ps) THEN <<>>
  ELSE
    LET position == ps[k]
        symbol == position.symbol
    IN  IF ~InBar(symbol, b) THEN RiskOrders(ps, k + 1, b)
        ELSE
          LET current_price == b.px[symbol]
              return_pct == ReturnPct(current_price, position.entry_price)
              protective ==
                Order(symbol, "sell", position.quantity, current_price, b.name)
          IN  (IF StopLossHit(return_pct) THEN <<protective>> ELSE <<>>)
              \o (IF TakeProfitHit(return_pct) THEN <<protective>> ELSE <<>>)
              \o RiskOrders(ps, k + 1, b)

\* (mutant) the risk overlay places one order for a Position at most
CheckRiskManagementOnce(ps, b) ==
  IF config.stop_loss_pct = NoneR /\ config.take_profit_pct = NoneR THEN <<>>
  ELSE LET os == RiskOrders(ps, 1, b)
           K == {k \in DOMAIN os :
                   \A j \in DOMAIN os : j < k => os[j].symbol # os[k].symbol}
       IN  [n \in 1..Cardinality(K) |->
              os[CHOOSE k \in K : Cardinality({j \in K : j <= k}) = n]]

\* _check_risk_management: the orders it places
CheckRiskManagement(ps, b) ==
  IF config.stop_loss_pct = NoneR /\ config.take_profit_pct = NoneR THEN <<>>
  ELSE RiskOrders(ps, 1, b)

\* signal.get('quantity', default)
SignalQuantity(signal, default) ==
  IF signal.quantity = NoneR THEN default ELSE signal.quantity

\* (mutant) a Sell signal that names a quantity needs no Position
ProcessSignalSellUngated(signal, cap, ps, b, timestamp) ==
  LET symbol == signal.symbol
  IN  IF signal.action = "buy"
      THEN LET price == BarGet(b, symbol, R(0))
           IN  IF price = R(0) THEN <<>>
               ELSE LET max_quantity ==
                          RDiv(RMul(cap, config.max_position_size), price)
                        quantity ==
                          RMin(SignalQuantity(signal, max_quantity), max_quantity)
                    IN  IF RLt(R(0), quantity)
                        THEN <<Order(symbol, "buy", quantity, price, timestamp)>>
                        ELSE <<>>
      ELSE IF signal.action = "sell"
      THEN LET at == PosIndex(ps, symbol)
           IN  IF at # 0 \/ signal.quantity # NoneR
               THEN LET price == BarGet(b, symbol, R(0))
                        quantity ==
                          IF at # 0 THEN SignalQuantity(signal, ps[at].quantity)
                          ELSE signal.quantity
                    IN  IF RLt(R(0), quantity)
                        THEN <<Order(symbol, "sell", quantity, price, timestamp)>>
                        ELSE <<>>
               ELSE <<>>
      ELSE <<>>

\* (mutant) a Sell signal asks for the entry price of the Position
ProcessSignalSellAtEntry(signal, cap, ps, b, timestamp) ==
  LET symbol == signal.symbol
  IN  IF signal.action = "buy"
      THEN LET price == BarGet(b, symbol, R(0))
           IN  IF price = R(0) THEN <<>>
               ELSE LET max_quantity ==
                          RDiv(RMul(cap, config.max_position_size), price)
                        quantity ==
                          RMin(SignalQuantity(signal, max_quantity), max_quantity)
                    IN  IF RLt(R(0), quantity)
                        THEN <<Order(symbol, "buy", quantity, price, timestamp)>>
                        ELSE <<>>
      ELSE IF signal.action = "sell"
      THEN LET at == PosIndex(ps, symbol)
           IN  IF at # 0
               THEN LET price == ps[at].entry_price
                        quantity == SignalQuantity(signal, ps[at].quantity)
                    IN  IF RLt(R(0), quantity)
                        THEN <<Order(symbol, "sell", quantity, price, timestamp)>>
                        ELSE <<>>
               ELSE <<>>
      ELSE <<>>

\* (mutant) a quantity the signal names is taken as it is
ProcessSignalUncapped(signal, cap, ps, b, timestamp) ==
  IF signal.action = "buy" /\ InBar(signal.symbol, b)
  THEN LET price == b.px[signal.symbol]
           quantity ==
             SignalQuantity(signal,
                            RDiv(RMul(cap, config.max_position_size), price))
       IN  IF RLt(R(0), quantity)
           THEN <<Order(signal.symbol, "buy", quantity, price, timestamp)>>
           ELSE <<>>
  ELSE IF signal.action = "sell" /\ PosIndex(ps, signal.symbol) # 0
  THEN LET quantity ==
             SignalQuantity(signal, ps[PosIndex(ps, signal.symbol)].quantity)
       IN  IF RLt(R(0), quantity)
           THEN <<Order(signal.symbol, "sell", quantity,
                        BarGet(b, signal.symbol, R(0)), timestamp)>>
           ELSE <<>>
  ELSE <<>>

\* _process_signal: the orders it places (none or one)
ProcessSignal(signal, cap, ps, b, timestamp) ==
  LET symbol == signal.symbol
  IN  IF signal.action = "buy"
      THEN LET price == BarGet(b, symbol, R(0))
           IN  IF price = R(0) THEN <<>>
               ELSE LET max_quantity ==
                          RDiv(RMul(cap, config.max_position_size), price)
                        quantity ==
                          RMin(SignalQuantity(signal, max_quantity), max_quantity)
                    IN  IF RLt(R(0), quantity)
                        THEN <<Order(symbol, "buy", quantity, price, timestamp)>>
                        ELSE <<>>
      ELSE IF signal.action = "sell"
      THEN LET at == PosIndex(ps, symbol)
           IN  IF at # 0
               THEN LET price == BarGet(b, symbol, R(0))
                        quantity == SignalQuantity(signal, ps[at].quantity)
                    IN  IF RLt(R(0), quantity)
                        THEN <<Order(symbol, "sell", quantity, price, timestamp)>>
                        ELSE <<>>
               ELSE <<>>
      ELSE <<>>

\* n orders placed by who
PlacedBy(n, who) == [k \in 1..n |-> who]

(***************************************************************************)
(* _calculate_metrics: the fields that need no square root, and of the     *)
(* Sharpe ratio, a float64 that is no rational in general, which of 0,     *)
(* nan, inf, -inf or a finite number it is                                 *)
(***************************************************************************)
\* np.diff(equity_curve) / equity_curve[:-1] (line 435)
Returns(ec) ==
  [k \in 1..(Len(ec) - 1) |-> RDiv(RSub(ec[k + 1], ec[k]), ec[k])]

\* whether np.std(xs) is 0, for xs not empty: every element is the mean
StdIsZero(xs) == \A j, k \in DOMAIN xs : xs[j] = xs[k]

\* np.mean(returns) / np.std(returns) * np.sqrt(252) if len(returns) > 0
\* else 0 (line 441); a float64 division by 0.0 is nan for 0.0 / 0.0 and
\* an infinity of the sign of the dividend otherwise
SharpeRatio(returns) ==
  IF Len(returns) > 0
  THEN IF StdIsZero(returns)
       THEN IF returns[1] = R(0) THEN "nan"
            ELSE IF RLt(R(0), returns[1]) THEN "inf" ELSE "-inf"
       ELSE "finite"
  ELSE "0"

CalculateMetrics ==
  [returned |-> TRUE,
   sharpe_ratio |-> SharpeRatio(Returns(equity_curve)),
   returns |-> Returns(equity_curve),
   total_return |->
      RMul(RSub(RDiv(equity_curve[Len(equity_curve)], equity_curve[1]), R(1)),
           R(100)),
   total_trades |-> Len(trades),
   total_commission |-> total_commission,
   total_slippage |-> total_slippage,
   final_equity |-> equity_curve[Len(equity_curve)],
   equity_curve |-> equity_curve,
   trades |-> trades]

(***************************************************************************)
(* run_backtest                                                            *)
(***************************************************************************)
\* (mutant) _reset leaves the equity curve and the timestamps of the run
\* before
ResetButCurve ==
  /\ capital' = config.initial_capital
  /\ positions' = <<>>
  /\ orders' = <<>>
  /\ trades' = <<>>
  /\ total_pnl' = R(0)
  /\ total_commission' = R(0)
  /\ total_slippage' = R(0)
  /\ UNCHANGED <<equity_curve, timestamps>>

\* (mutant) _reset leaves the totals of the run before
ResetButTotals ==
  /\ capital' = config.initial_capital
  /\ positions' = <<>>
  /\ orders' = <<>>
  /\ trades' = <<>>
  /\ equity_curve' = <<config.initial_capital>>
  /\ timestamps' = <<>>
  /\ UNCHANGED <<total_pnl, total_commission, total_slippage>>

\* _reset
Reset ==
  /\ capital' = config.initial_capital
  /\ positions' = <<>>
  /\ orders' = <<>>
  /\ trades' = <<>>
  /\ equity_curve' = <<config.initial_capital>>
  /\ timestamps' = <<>>
  /\ total_pnl' = R(0)
  /\ total_commission' = R(0)
  /\ total_slippage' = R(0)

\* run_backtest is called, on the engine as constructed or as an earlier
\* run left it: the state is reset (line 153)
RunBacktest ==
  /\ pc \in {"idle", "done"}
  /\ Reset
  /\ pc' = "loop"
  /\ i' = 0
  /\ bar' = NoBar
  /\ oi' = 1
  /\ closing' = <<>>
  /\ ci' = 1
  /\ placed_by' = <<>>
  /\ strategy_signal' = NoSignal
  /\ calls' = <<>>
  /\ result' = NoResult
  /\ ran_before' = (pc = "done")
  /\ UNCHANGED <<config, columns, data, strategy, lo, nbars, walk>>

\* the head of the bar loop: row i is read and the Positions are marked
\* (lines 156-161)
UpdateBar ==
  /\ pc = "loop"
  /\ i < nbars
  /\ \E row \in Rows(columns) :
        /\ data[lo + i] \in {AnyRow(columns), row}
        /\ bar' = [name |-> lo + i, px |-> row]
  /\ positions' = UpdatePositions(positions, bar')
  /\ pc' = "execute"
  /\ oi' = 1
  /\ UNCHANGED <<capital, orders, trades, equity_curve, timestamps, total_pnl,
                 total_commission, total_slippage>>
  /\ UNCHANGED <<inputs, i, closing, ci, result, placed_by, strategy_signal,
                 calls, walk>>

\* _execute_orders: the loop passes the orders that are not Pending and
\* fills the next Pending one (lines 277-352), or ends
ExecuteOrders ==
  /\ pc \in {"execute", "close_execute"}
  /\ LET k == NextPending(orders, oi)
     IN  IF k = 0
         THEN /\ pc' = IF pc = "execute" THEN "risk" ELSE "close"
              /\ ci' = IF pc = "execute" THEN ci ELSE ci + 1
              /\ oi' = 1
              /\ UNCHANGED <<ledger, closing>>
         ELSE
           LET order == orders[k]
               fill_price == FillPrice(order)
               commission == Commission(order, fill_price)
               at == PosIndex(positions, order.symbol)
           IN  /\ orders' = [orders EXCEPT ![k] =
                               [order EXCEPT !.fill_price = fill_price,
                                             !.fill_timestamp = bar.name,
                                             !.status = "filled"]]
               /\ total_commission' = RAdd(total_commission, commission)
               /\ total_slippage' =
                     RAdd(total_slippage, SlippageCost(order, fill_price))
               /\ IF order.side = "buy"
                  THEN /\ positions' =
                            BuyPositions(positions, order, fill_price, bar.name, k)
                       /\ capital' =
                            RSub(capital,
                                 RAdd(RMul(order.quantity, fill_price), commission))
                       /\ UNCHANGED <<trades, total_pnl, closing>>
                  ELSE IF at # 0
                  THEN LET pos == positions[at]
                           close_quantity == CloseQuantity(order, pos)
                           trade == SellTrade(pos, order, fill_price, bar.name,
                                              commission)
                       IN  /\ trades' = Append(trades, trade)
                           /\ total_pnl' = RAdd(total_pnl, trade.pnl)
                           /\ capital' =
                                RAdd(capital,
                                     RSub(RMul(close_quantity, fill_price),
                                          commission))
                           /\ positions' =
                                SellPositions(positions, at, close_quantity)
                           \* the Position object keeps the quantity it is
                           \* left with, also for who still refers to it
                           /\ closing' =
                                [c \in 1..Len(closing) |->
                                   IF closing[c].oid = pos.oid
                                   THEN [closing[c] EXCEPT !.quantity =
                                           RSub(pos.quantity, close_quantity)]
                                   ELSE closing[c]]
                  ELSE UNCHANGED <<capital, positions, trades, total_pnl, closing>>
               /\ oi' = k + 1
               /\ UNCHANGED <<equity_curve, timestamps, pc, ci>>
  /\ UNCHANGED <<inputs, i, bar, result, placed_by, strategy_signal, calls,
                 walk>>

\* _check_risk_management (line 167)
CheckRisk ==
  /\ pc = "risk"
  /\ LET placed == CheckRiskManagement(positions, bar)
     IN  /\ orders' = orders \o placed
         /\ placed_by' = placed_by \o PlacedBy(Len(placed), "risk")
  /\ pc' = "strategy"
  /\ UNCHANGED <<capital, positions, trades, equity_curve, timestamps, total_pnl,
                 total_commission, total_slippage>>
  /\ UNCHANGED <<inputs, i, bar, oi, closing, ci, result, strategy_signal,
                 calls, walk>>

\* (mutant) the strategy is first called one bar late
StrategyGateAfter(at) == at > config.execution_delay

\* whether the strategy is called at bar `at` (line 170)
StrategyGate(at) == at >= config.execution_delay

\* the rows the strategy is handed at bar `at`, data.iloc[:at+1], as the set
\* of their index labels (line 171)
StrategyData(at) == lo..(lo + at)

\* (mutant) an exception of a collaborator is caught and the run goes on
AfterRaiseSwallowed(at) == IF at = "strategy" THEN "record" ELSE "walk_done"

\* where control is after a collaborator raised at `at`: neither
\* run_backtest nor run_walk_forward has a handler, the call ends with
\* the exception (lines 171, 233, 236)
AfterRaise(at) == "raised"

\* the strategy is called on the rows read so far and its signal is
\* processed (lines 170-174)
Strategy ==
  /\ pc = "strategy"
  /\ IF StrategyGate(i)
     THEN \E s \in strategy \cup {NoSignal} :
            LET placed ==
                  IF s = NoSignal THEN <<>>
                  ELSE ProcessSignal(s, capital, positions, bar, bar.name)
            IN  /\ strategy_signal' = s
                /\ calls' = Append(calls, [i |-> i, data |-> StrategyData(i),
                                           raised |-> FALSE])
                /\ orders' = orders \o placed
                /\ placed_by' = placed_by \o PlacedBy(Len(placed), "signal")
     ELSE UNCHANGED <<orders, placed_by, strategy_signal, calls>>
  /\ pc' = "record"
  /\ UNCHANGED <<capital, positions, trades, equity_curve, timestamps, total_pnl,
                 total_commission, total_slippage>>
  /\ UNCHANGED <<inputs, i, bar, oi, closing, ci, result, walk>>

\* the strategy is called and raises: run_backtest ends with the exception
\* (line 171)
StrategyRaises ==
  /\ pc = "strategy"
  /\ StrategyGate(i)
  /\ calls' = Append(calls, [i |-> i, data |-> StrategyData(i),
                             raised |-> TRUE])
  /\ pc' = AfterRaise("strategy")
  /\ UNCHANGED <<ledger, inputs, i, bar, oi, closing, ci, result, placed_by,
                 strategy_signal, walk>>

\* the equity of the bar is recorded and the loop goes on to the next
\* bar, where `signal` is yet to be assigned (lines 177-179)
RecordEquity ==
  /\ pc = "record"
  /\ equity_curve' = Append(equity_curve, CalculateEquity(capital, positions, bar))
  /\ timestamps' = Append(timestamps, bar.name)
  /\ i' = i + 1
  /\ pc' = "loop"
  /\ strategy_signal' = NoSignal
  /\ UNCHANGED <<capital, positions, orders, trades, total_pnl, total_commission,
                 total_slippage>>
  /\ UNCHANGED <<inputs, bar, oi, closing, ci, result, placed_by, calls,
                 walk>>

\* the loop is over: _close_all_positions is called on the last row and
\* takes list(self.positions.items()) (lines 182-183, 416)
CloseAllPositions ==
  /\ pc = "loop"
  /\ i = nbars
  /\ closing' = [c \in 1..Len(positions) |->
                   [symbol |-> positions[c].symbol, oid |-> positions[c].oid,
                    quantity |-> positions[c].quantity]]
  /\ ci' = 1
  /\ pc' = "close"
  /\ UNCHANGED <<ledger, inputs, i, bar, oi, result, placed_by,
                 strategy_signal, calls, walk>>

\* the quantity of the Position object closing[c] refers to
ObjectQuantity(ps, c) ==
  LET S == {k \in 1..Len(ps) : ps[k].oid = c.oid}
  IN  IF S = {} THEN c.quantity ELSE ps[CHOOSE k \in S : TRUE].quantity

\* _close_all_positions, one Position of its loop: a Sell is placed and
\* _execute_orders is called (lines 416-420)
ClosePosition ==
  /\ pc = "close"
  /\ ci <= Len(closing)
  /\ IF InBar(closing[ci].symbol, bar)
     THEN /\ orders' = PlaceOrder(orders, closing[ci].symbol, "sell",
                                  ObjectQuantity(positions, closing[ci]),
                                  bar.px[closing[ci].symbol], bar.name)
          /\ placed_by' = Append(placed_by, "close")
          /\ pc' = "close_execute"
          /\ oi' = 1
          /\ ci' = ci
     ELSE /\ ci' = ci + 1
          /\ UNCHANGED <<orders, placed_by, pc, oi>>
  /\ UNCHANGED <<capital, positions, trades, equity_curve, timestamps, total_pnl,
                 total_commission, total_slippage>>
  /\ UNCHANGED <<inputs, i, bar, closing, result, strategy_signal, calls,
                 walk>>

\* _calculate_metrics, and run_backtest returns (lines 186-190)
ReturnResults ==
  /\ pc = "close"
  /\ ci > Len(closing)
  /\ result' = CalculateMetrics
  /\ pc' = IF caller = "main" THEN "done" ELSE "window_done"
  /\ UNCHANGED <<ledger, inputs, i, bar, oi, closing, ci, placed_by,
                 strategy_signal, calls, walk>>

Next ==
  \/ RunBacktest
  \/ UpdateBar
  \/ ExecuteOrders
  \/ CheckRisk
  \/ Strategy
  \/ StrategyRaises
  \/ RecordEquity
  \/ CloseAllPositions
  \/ ClosePosition
  \/ ReturnResults

Spec == Init /\ [][Next]_vars

\* the configurations the order modes are checked with: thresholds of the
\* risk overlay that contradict each other (a return of 0 % is at the stop
\* loss and at the take profit), and a slippage_bps that is not 0 with
\* limit orders (use_market_orders = False) and with market orders
ModeConfigs ==
  { Config(R(100), Rat(1, 2), R(0), Rat(1, 2), R(0), R(0), 0, TRUE, 1, 1, 1),
    Config(R(100), Rat(1, 2), R(5000), Rat(1, 4), NoneR, NoneR, 0, FALSE, 1, 1, 1),
    Config(R(100), Rat(1, 2), R(5000), Rat(1, 4), NoneR, NoneR, 0, TRUE, 1, 1, 1) }

\* a constructed engine with one of these configurations, about to be
\* handed a frame of 1 .. MaxBars rows
InitModes ==
  /\ config \in ModeConfigs
  /\ Constructed
  /\ columns = {"A", "B"}
  /\ nbars \in 1..MaxBars
  /\ lo = 0
  /\ ran_before = FALSE
  /\ data = [j \in 0..(nbars - 1) |-> AnyRow(columns)]
  /\ strategy = AnyStrategy
  /\ pc = "idle"
  /\ i = 0
  /\ bar = NoBar
  /\ oi = 1
  /\ closing = <<>>
  /\ ci = 1
  /\ result = NoResult
  /\ placed_by = <<>>
  /\ strategy_signal = NoSignal
  /\ calls = <<>>
  /\ caller = "main"
  /\ start_idx = 0
  /\ results = <<>>
  /\ aggregated = NoResult

SpecModes == InitModes /\ [][Next]_vars

(***************************************************************************)
(* run_walk_forward                                                        *)
(***************************************************************************)
\* a constructed engine, about to be handed a frame of 1 .. MaxDays rows
\* and a strategy factory
InitWF ==
  /\ config \in WalkForwardConfigs
  /\ Constructed
  /\ columns = {"A"}
  /\ \E total_days \in 1..MaxDays : data \in [0..(total_days - 1) -> Rows(columns)]
  /\ nbars = 0
  /\ lo = 0
  /\ ran_before = FALSE
  /\ strategy = {}
  /\ pc = "walk_idle"
  /\ i = 0
  /\ bar = NoBar
  /\ oi = 1
  /\ closing = <<>>
  /\ ci = 1
  /\ result = NoResult
  /\ placed_by = <<>>
  /\ strategy_signal = NoSignal
  /\ calls = <<>>
  /\ caller = "walk_forward"
  /\ start_idx = 0
  /\ results = <<>>
  /\ aggregated = NoResult

\* len(data) in run_walk_forward
TotalDays == Cardinality(DOMAIN data)

\* (mutant) a window that ends with the data is left out
WindowFitsStrictly ==
  start_idx + config.train_period_days + config.test_period_days < TotalDays

\* the condition of the window loop (line 221)
WindowFits ==
  start_idx + config.train_period_days + config.test_period_days <= TotalDays

\* run_walk_forward is called (lines 211-219)
RunWalkForward ==
  /\ pc = "walk_idle"
  /\ results' = <<>>
  /\ start_idx' = 0
  /\ pc' = "walk_loop"
  /\ UNCHANGED <<ledger, inputs, i, bar, oi, closing, ci, result, placed_by,
                 strategy_signal, calls, caller, aggregated>>

\* a window: the factory returns a strategy for the training rows and
\* run_backtest is called on the test rows (lines 221-236, 153)
Window ==
  /\ pc = "walk_loop"
  /\ WindowFits
  /\ Len(results) < MaxWindows
  /\ config.train_period_days > 0
  /\ config.test_period_days > 0
  /\ strategy' \in FactoryStrategies
  /\ lo' = start_idx + config.train_period_days
  /\ nbars' = config.test_period_days
  /\ Reset
  /\ pc' = "loop"
  /\ i' = 0
  /\ bar' = NoBar
  /\ oi' = 1
  /\ closing' = <<>>
  /\ ci' = 1
  /\ placed_by' = <<>>
  /\ strategy_signal' = NoSignal
  /\ calls' = <<>>
  /\ result' = NoResult
  /\ ran_before' = (results # <<>>)
  /\ UNCHANGED <<config, columns, data, walk>>

\* a window whose strategy factory raises: run_walk_forward ends with the
\* exception (line 233)
FactoryRaises ==
  /\ pc = "walk_loop"
  /\ WindowFits
  /\ Len(results) < MaxWindows
  /\ config.train_period_days > 0
  /\ config.test_period_days > 0
  /\ pc' = AfterRaise("factory")
  /\ UNCHANGED <<ledger, inputs, i, bar, oi, closing, ci, result, placed_by,
                 strategy_signal, calls, walk>>

\* the window's result is recorded and the window moves (lines 237-245)
WindowDone ==
  /\ pc = "window_done"
  /\ results' =
       Append(results,
              [result |-> result,
               train_start |-> start_idx,
               train_end |-> start_idx + config.train_period_days - 1,
               test_start |-> lo,
               test_end |-> lo + nbars - 1])
  /\ start_idx' = start_idx + config.step_days
  /\ pc' = "walk_loop"
  /\ UNCHANGED <<ledger, inputs, i, bar, oi, closing, ci, result, placed_by,
                 strategy_signal, calls, caller, aggregated>>

\* np.mean of the windows' total returns (nan for no window)
RECURSIVE SumReturns(_, _)
SumReturns(rs, k) ==
  IF k > Len(rs) THEN R(0)
  ELSE RAdd(rs[k].result.total_return, SumReturns(rs, k + 1))

\* _aggregate_walk_forward_results: the fields that need no square root
AggregateWalkForwardResults(rs) ==
  [returned |-> TRUE,
   n_windows |-> Len(rs),
   avg_return |-> IF Len(rs) = 0 THEN NoneR
                  ELSE RDiv(SumReturns(rs, 1), R(Len(rs))),
   windows |-> rs]

\* the windows are over: the results are aggregated and returned
\* (lines 248-252)
Aggregate ==
  /\ pc = "walk_loop"
  /\ ~WindowFits
  /\ aggregated' = AggregateWalkForwardResults(results)
  /\ pc' = "walk_done"
  /\ UNCHANGED <<ledger, inputs, i, bar, oi, closing, ci, result, placed_by,
                 strategy_signal, calls, caller, start_idx, results>>

NextWF ==
  \/ RunWalkForward
  \/ Window
  \/ UpdateBar
  \/ ExecuteOrders
  \/ CheckRisk
  \/ FactoryRaises
  \/ Strategy
  \/ StrategyRaises
  \/ RecordEquity
  \/ CloseAllPositions
  \/ ClosePosition
  \/ ReturnResults
  \/ WindowDone
  \/ Aggregate

SpecWF == InitWF /\ [][NextWF]_vars

\* a walk-forward configuration whose window does not move: step_days = 0
StepZeroConfigs ==
  { Config(R(100), Rat(1, 2), R(0), Rat(1, 2), R(50), R(100), 0, TRUE, 1, 2, 0) }

\* a constructed engine with that configuration, about to be handed a frame
\* of 1 .. MaxDays rows by run_walk_forward
InitWFStepZero ==
  /\ config \in StepZeroConfigs
  /\ Constructed
  /\ columns = {"A"}
  /\ \E total_days \in 1..MaxDays : data \in [0..(total_days - 1) -> Rows(columns)]
  /\ nbars = 0
  /\ lo = 0
  /\ ran_before = FALSE
  /\ strategy = {}
  /\ pc = "walk_idle"
  /\ i = 0
  /\ bar = NoBar
  /\ oi = 1
  /\ closing = <<>>
  /\ ci = 1
  /\ result = NoResult
  /\ placed_by = <<>>
  /\ strategy_signal = NoSignal
  /\ calls = <<>>
  /\ caller = "walk_forward"
  /\ start_idx = 0
  /\ results = <<>>
  /\ aggregated = NoResult

\* run_walk_forward with step_days = 0
SpecWFStepZero == InitWFStepZero /\ [][NextWF]_vars

(***************************************************************************)
(* What the claims are stated with                                         *)
(***************************************************************************)
\* order k goes from Pending to Filled in this step
FilledNow(k) ==
  /\ k \in DOMAIN orders
  /\ k \in DOMAIN orders'
  /\ orders[k].status = "pending"
  /\ orders'[k].status = "filled"

\* the step is one of _execute_orders
ExecuteStep == pc \in {"execute", "close_execute"}

\* the index label of the last row of the run
LastBar == lo + nbars - 1

\* sum of quantity x current_price over the Positions from place k on
RECURSIVE MarkedValue(_, _)
MarkedValue(ps, k) ==
  IF k > Len(ps) THEN R(0)
  ELSE RAdd(RMul(ps[k].quantity, ps[k].current_price), MarkedValue(ps, k + 1))

(***************************************************************************)
(* C1. Lag invariant: every order queued by the risk overlay or by the     *)
(* signal interpreter that is filled has a fill_timestamp strictly later   *)
(* than its placement timestamp, also when it was queued during the last   *)
(* bar; only the liquidation orders of _close_all_positions fill at the    *)
(* timestamp they were placed at.                                          *)
(***************************************************************************)
C1_LagInvariant ==
  \A k \in DOMAIN orders :
    orders[k].status = "filled" =>
      IF placed_by[k] = "close"
      THEN orders[k].fill_timestamp = orders[k].timestamp
      ELSE orders[k].fill_timestamp > orders[k].timestamp

(***************************************************************************)
(* C2. Equity reconciliation: the equity appended to the equity curve for  *)
(* a bar equals capital plus the sum over the open Positions of            *)
(* quantity x current_price, on the ledger as it is when the equity is     *)
(* recorded.                                                               *)
(***************************************************************************)
C2_EquityReconciliation ==
  (pc = "loop" /\ i > 0) =>
    equity_curve[Len(equity_curve)] = RAdd(capital, MarkedValue(positions, 1))

(***************************************************************************)
(* C3. End-of-run liquidation: when run_backtest returns, no Position is   *)
(* open, whatever was Pending at the last bar.                             *)
(***************************************************************************)
C3_NoPositionAtReturn ==
  result.returned => positions = <<>>

(***************************************************************************)
(* C4. No negative positions: every stored Position has quantity > 0 and   *)
(* no two stored Positions are of the same symbol, whatever Buy and Sell   *)
(* fills happened (Sells for more than is held included).                  *)
(***************************************************************************)
C4_NoNegativePositions ==
  /\ \A k \in DOMAIN positions : RLt(R(0), positions[k].quantity)
  /\ \A j, k \in DOMAIN positions :
        positions[j].symbol = positions[k].symbol => j = k

\* a Sell for more than was held has been filled against a Position, and a
\* Position is open
C4_Witness ==
  /\ positions # <<>>
  /\ \E k \in DOMAIN orders : \E t \in DOMAIN trades :
        /\ orders[k].side = "sell"
        /\ orders[k].status = "filled"
        /\ trades[t].symbol = orders[k].symbol
        /\ trades[t].exit_timestamp = orders[k].fill_timestamp
        /\ RLt(trades[t].quantity, orders[k].quantity)

(***************************************************************************)
(* C5. Order lifecycle: the status of an order changes only from Pending   *)
(* to Filled; no order is Cancelled; a Filled order never changes again;   *)
(* and a step of _execute_orders (also one of the calls repeated during    *)
(* the liquidation) changes capital, the Positions, the trades or the      *)
(* totals only by filling an order that was Pending.                       *)
(***************************************************************************)
C5_OrderLifecycle ==
  [][/\ \A k \in DOMAIN orders :
          k \in DOMAIN orders' =>
            /\ orders'[k].status \in {"pending", "filled"}
            /\ orders[k].status = "filled" => orders'[k] = orders[k]
            /\ orders'[k].status # orders[k].status => FilledNow(k)
     /\ (ExecuteStep /\ <<capital, positions, trades, total_pnl,
                          total_commission, total_slippage>>' #
                        <<capital, positions, trades, total_pnl,
                          total_commission, total_slippage>>)
          => \E k \in DOMAIN orders :
               /\ FilledNow(k)
               /\ \A j \in DOMAIN orders : j # k => orders'[j] = orders[j]
    ]_vars

\* _execute_orders is called again during the liquidation: an order is
\* Filled already and another one is Pending
C5_Witness ==
  /\ pc = "close_execute"
  /\ ci >= 2
  /\ \E k \in DOMAIN orders : orders[k].status = "filled"
  /\ \E k \in DOMAIN orders : orders[k].status = "pending"

(***************************************************************************)
(* C6. Cost-basis weighting: a Buy fill of quantity q at fill price f that *)
(* adds to a Position of quantity Q and entry price e leaves it with       *)
(* quantity Q + q and entry price (Q*e + q*f) / (Q + q); so a Position     *)
(* built by Buy fills alone (q1 at p1, then q2 at p2, no Sell) has the sum *)
(* of their quantities and the quantity-weighted average of their fill     *)
(* prices.                                                                 *)
(***************************************************************************)
\* the Buy orders of os, filled, that built Position pos, its opening one
\* included
BuysOf(pos, os) ==
  {k \in DOMAIN os : /\ k >= pos.oid
                     /\ os[k].symbol = pos.symbol
                     /\ os[k].side = "buy"
                     /\ os[k].status = "filled"}

\* the Sell orders of os, filled, that met Position pos
SellsOf(pos, os) ==
  {k \in DOMAIN os : /\ k > pos.oid
                     /\ os[k].symbol = pos.symbol
                     /\ os[k].side = "sell"
                     /\ os[k].status = "filled"}

\* the sum of quantity (cost = FALSE) or of quantity x fill price (cost =
\* TRUE) over the orders K of os
RECURSIVE SumOver(_, _, _)
SumOver(K, os, cost) ==
  IF K = {} THEN R(0)
  ELSE LET k == CHOOSE x \in K : TRUE
       IN  RAdd(IF cost THEN RMul(os[k].quantity, os[k].fill_price)
                ELSE os[k].quantity,
                SumOver(K \ {k}, os, cost))

BuiltByBuys(pos, os) ==
  SellsOf(pos, os) = {} =>
    /\ pos.quantity = SumOver(BuysOf(pos, os), os, FALSE)
    /\ RMul(pos.entry_price, SumOver(BuysOf(pos, os), os, FALSE)) =
         SumOver(BuysOf(pos, os), os, TRUE)

C6_CostBasisWeighting ==
  [][/\ \A k \in DOMAIN orders :
          LET at == PosIndex(positions, orders[k].symbol)
          IN  (FilledNow(k) /\ orders[k].side = "buy" /\ at # 0) =>
                LET old == positions[at]
                    new == positions'[at]
                    q == orders[k].quantity
                    f == orders'[k].fill_price
                IN  /\ new.quantity = RAdd(old.quantity, q)
                    /\ RMul(new.entry_price, RAdd(old.quantity, q)) =
                         RAdd(RMul(old.quantity, old.entry_price), RMul(q, f))
     /\ \A at \in DOMAIN positions' : BuiltByBuys(positions'[at], orders')
    ]_vars

\* a Position built by two Buy fills at different fill prices
C6_Witness ==
  \E at \in DOMAIN positions :
    /\ SellsOf(positions[at], orders) = {}
    /\ \E j, k \in BuysOf(positions[at], orders) :
          /\ j # k
          /\ orders[j].fill_price # orders[k].fill_price
          /\ BuysOf(positions[at], orders) = {j, k}

(***************************************************************************)
(* C7. Trade/PnL identity: a Sell fill that closes a whole Position of     *)
(* quantity q and entry price p at fill price p', with commission c        *)
(* charged on the fill, appends a Trade with quantity q, entry_price p,    *)
(* exit_price p', pnl = (p' - p)*q - c, return_pct = (p'/p - 1)*100 and    *)
(* holding_period = fill timestamp - entry timestamp of the Position.      *)
(***************************************************************************)
C7_TradePnlIdentity ==
  [][\A k \in DOMAIN orders :
       LET at == PosIndex(positions, orders[k].symbol)
       IN  (/\ FilledNow(k)
            /\ orders[k].side = "sell"
            /\ at # 0
            /\ PosIndex(positions', orders[k].symbol) = 0) =>
              LET pos == positions[at]
                  q == pos.quantity
                  p == pos.entry_price
                  f == orders'[k].fill_price
                  \* what the fill took from its proceeds
                  c == RSub(RMul(q, f), RSub(capital', capital))
                  trade == trades'[Len(trades')]
              IN  /\ Len(trades') = Len(trades) + 1
                  /\ c = RSub(total_commission', total_commission)
                  /\ trade.quantity = q
                  /\ trade.entry_price = p
                  /\ trade.exit_price = f
                  /\ trade.pnl = RSub(RMul(RSub(f, p), q), c)
                  /\ RMul(trade.return_pct, p) = RMul(RSub(f, p), R(100))
                  /\ trade.holding_period =
                       orders'[k].fill_timestamp - pos.entry_timestamp
    ]_vars

\* a Sell for more than was held has just closed a whole Position, at a
\* price other than its entry price
C7_Witness ==
  /\ ExecuteStep
  /\ trades # <<>>
  /\ oi > 1
  /\ LET trade == trades[Len(trades)]
         order == orders[oi - 1]
     IN  /\ order.side = "sell"
         /\ order.symbol = trade.symbol
         /\ order.fill_timestamp = trade.exit_timestamp
         /\ RLt(trade.quantity, order.quantity)
         /\ PosIndex(positions, trade.symbol) = 0
         /\ trade.exit_price # trade.entry_price
         /\ trade.holding_period > 0

(***************************************************************************)
(* C8. A Sell with no matching Position is a no-op: when _execute_orders   *)
(* fills a Sell order whose symbol has no open Position, capital, the      *)
(* Positions, the trades, total_pnl, total_commission and total_slippage   *)
(* keep their values.                                                      *)
(***************************************************************************)
C8_SellWithoutPositionNoOp ==
  [][\A k \in DOMAIN orders :
       (/\ FilledNow(k)
        /\ orders[k].side = "sell"
        /\ PosIndex(positions, orders[k].symbol) = 0) =>
          UNCHANGED <<capital, positions, trades, total_pnl, total_commission,
                      total_slippage>>
    ]_vars

(***************************************************************************)
(* C9. Stop-loss timing: with stop_loss_pct configured, when the risk      *)
(* overlay runs in a bar and an open Position has                          *)
(* (price/entry_price - 1)*100 <= -stop_loss_pct, a Sell order for the     *)
(* whole quantity of the Position, priced at the bar's price, is queued in *)
(* that bar; when the return is above -stop_loss_pct (and below the        *)
(* take-profit threshold) no order is queued for the Position.  An order   *)
(* the risk overlay queued in a bar that is not the last one stays Pending *)
(* during that bar and is Filled by _execute_orders of the next bar.       *)
(***************************************************************************)
\* the stop-loss condition, without the division
StopLossReached(pos, b) ==
  /\ config.stop_loss_pct # NoneR
  /\ RLe(RMul(b.px[pos.symbol], R(100)),
         RMul(pos.entry_price, RSub(R(100), config.stop_loss_pct)))

\* the take-profit condition, without the division
TakeProfitReached(pos, b) ==
  /\ config.take_profit_pct # NoneR
  /\ RLe(RMul(pos.entry_price, RAdd(R(100), config.take_profit_pct)),
         RMul(b.px[pos.symbol], R(100)))

\* the orders of the risk overlay, placed before the last bar, are Pending
\* in their bar and Filled by the execution pass of the next one
RiskOrdersFillNextBar(os, who, b, at) ==
  \A k \in DOMAIN os :
    (who[k] = "risk" /\ os[k].timestamp < LastBar) =>
      /\ os[k].status = "filled" => os[k].fill_timestamp = os[k].timestamp + 1
      /\ b.name = os[k].timestamp => os[k].status = "pending"
      /\ (b.name > os[k].timestamp /\ at # "execute") => os[k].status = "filled"

C9_StopLossTiming ==
  [][/\ (pc = "risk" /\ pc' = "strategy") =>
          \A at \in DOMAIN positions :
            LET pos == positions[at]
                placed == {k \in (Len(orders) + 1)..Len(orders') :
                             orders'[k].symbol = pos.symbol}
            IN  /\ Cardinality(placed) =
                     (IF StopLossReached(pos, bar) THEN 1 ELSE 0)
                     + (IF TakeProfitReached(pos, bar) THEN 1 ELSE 0)
                /\ \A k \in placed :
                     /\ orders'[k] = Order(pos.symbol, "sell", pos.quantity,
                                           bar.px[pos.symbol], bar.name)
                     /\ placed_by'[k] = "risk"
     /\ RiskOrdersFillNextBar(orders', placed_by', bar', pc')
    ]_vars

\* a stop-loss order queued in one bar has closed its Position, at a loss,
\* in the next bar
C9_Witness ==
  \E k \in DOMAIN orders : \E t \in DOMAIN trades :
    /\ placed_by[k] = "risk"
    /\ orders[k].status = "filled"
    /\ orders[k].fill_timestamp = orders[k].timestamp + 1
    /\ trades[t].symbol = orders[k].symbol
    /\ trades[t].exit_timestamp = orders[k].fill_timestamp
    /\ trades[t].quantity = orders[k].quantity
    /\ RLt(trades[t].exit_price, trades[t].entry_price)

(***************************************************************************)
(* C10. Walk-forward independence: the run of every walk-forward window    *)
(* starts from the ledger of a freshly constructed engine - capital, the   *)
(* Positions, the orders, the trades, the equity curve, the timestamps and *)
(* the pnl, commission and slippage totals are those of __init__ -         *)
(* whatever the earlier windows left behind.                               *)
(***************************************************************************)
C10_WalkForwardIndependence ==
  (pc = "loop" /\ i = 0) => Constructed

\* a window starts after a window that traded and left a Position open
C10_Witness ==
  /\ pc = "loop"
  /\ i = 0
  /\ results # <<>>
  /\ results[Len(results)].result.total_trades > 0
  /\ results[Len(results)].result.total_commission # R(0)

C13_BuySizingCap ==
  [][(pc = "strategy" /\ pc' = "record") =>
       LET s == strategy_signal'
           placed == (Len(orders) + 1)..Len(orders')
       IN  /\ \A k \in placed :
                orders'[k].side = "buy" =>
                  /\ RLt(R(0), orders'[k].quantity)
                  /\ RLe(RMul(orders'[k].quantity, orders'[k].price),
                         RMul(capital, config.max_position_size))
                  /\ orders'[k].price = bar.px[orders'[k].symbol]
           /\ s.action = "buy" =>
                IF s.symbol \notin DOMAIN bar.px THEN placed = {}
                ELSE LET price == bar.px[s.symbol]
                         cap == RDiv(RMul(capital, config.max_position_size),
                                     price)
                         q == IF s.quantity = NoneR THEN cap
                              ELSE IF RLt(cap, s.quantity) THEN cap
                              ELSE s.quantity
                     IN  IF RLt(R(0), q)
                         THEN /\ Cardinality(placed) = 1
                              /\ orders'[Len(orders')] =
                                   Order(s.symbol, "buy", q, price, bar.name)
                         ELSE placed = {}
    ]_vars

\* a buy signal that names more than the cap has queued a Buy order of the
\* cap
C13_Witness ==
  /\ pc = "record"
  /\ strategy_signal.action = "buy"
  /\ strategy_signal.quantity # NoneR
  /\ orders # <<>>
  /\ LET order == orders[Len(orders)]
     IN  /\ order.side = "buy"
         /\ order.status = "pending"
         /\ order.timestamp = bar.name
         /\ RLt(order.quantity, strategy_signal.quantity)
         /\ RMul(order.quantity, order.price) =
              RMul(capital, config.max_position_size)

(***************************************************************************)
(* C14. Initial state of every run: when run_backtest starts, on a new     *)
(* engine or on one that already ran, capital is initial_capital, there    *)
(* are no Positions, no orders and no trades, and the equity curve is      *)
(* [initial_capital]; when a run over N bars ends, the equity curve has    *)
(* N + 1 entries, the first of them initial_capital, and the timestamp     *)
(* list has N entries.                                                     *)
(***************************************************************************)
C14_InitialStateOfRun ==
  /\ (pc = "loop" /\ i = 0) =>
        /\ capital = config.initial_capital
        /\ positions = <<>>
        /\ orders = <<>>
        /\ trades = <<>>
        /\ equity_curve = <<config.initial_capital>>
        /\ timestamps = <<>>
  /\ result.returned =>
        /\ Len(equity_curve) = nbars + 1
        /\ equity_curve[1] = config.initial_capital
        /\ Len(timestamps) = nbars
        /\ result.equity_curve = equity_curve

\* a run over two bars or more, on an engine that had run before, has
\* traded and is over
C14_Witness ==
  /\ result.returned
  /\ ran_before
  /\ nbars >= 2
  /\ trades # <<>>

(***************************************************************************)
(* C15. Strategy invocation gate and no look-ahead: in run_backtest the    *)
(* strategy is called exactly once at every bar index i >= execution_delay *)
(* and never at an index i < execution_delay, and at bar i it is handed    *)
(* exactly the bars 0 .. i, never a later one; hence no order exists       *)
(* before the strategy is called at bar execution_delay, no order is       *)
(* filled in a bar up to and including bar execution_delay, and the equity *)
(* recorded for each of these bars is initial_capital.                     *)
(***************************************************************************)
\* the number of bars whose strategy step is over
StrategySteps == IF pc \in {"record", "raised"} THEN i + 1 ELSE i

\* the strategy has been called once for each bar from execution_delay on
\* whose strategy step is over, in their order, on the bars up to that bar
CalledOncePerBar ==
  /\ Len(calls) =
       IF StrategySteps > config.execution_delay
       THEN StrategySteps - config.execution_delay ELSE 0
  /\ \A k \in DOMAIN calls :
        /\ calls[k].i = config.execution_delay + k - 1
        /\ calls[k].data = {lo + j : j \in 0..calls[k].i}

\* the equity recorded for the bars 0 .. execution_delay is initial_capital
\* (equity_curve[1] is the seed, equity_curve[j + 2] the equity of bar j)
EquityFlatThroughDelay ==
  \A k \in DOMAIN equity_curve :
    k <= config.execution_delay + 2 => equity_curve[k] = config.initial_capital

\* the claim as it stands: no order exists in a bar up to and including
\* bar execution_delay
C15_NoOrderThroughDelayBar ==
  /\ CalledOncePerBar
  /\ EquityFlatThroughDelay
  /\ (bar # NoBar /\ bar.name <= lo + config.execution_delay) => orders = <<>>

C15_StrategyGate ==
  /\ CalledOncePerBar
  /\ EquityFlatThroughDelay
  /\ \A k \in DOMAIN orders :
        /\ orders[k].timestamp >= lo + config.execution_delay
        /\ orders[k].status = "filled" =>
              orders[k].fill_timestamp > lo + config.execution_delay
  /\ (bar # NoBar /\ bar.name <= lo + config.execution_delay) =>
        /\ positions = <<>>
        /\ capital = config.initial_capital
        /\ pc \in {"execute", "risk", "strategy"} => orders = <<>>

\* with an execution_delay of one bar, the strategy was not called at
\* bar 0, was called at bar 1 and queued an order there, and the equity of
\* bar 1 has been recorded
C15_Witness ==
  /\ config.execution_delay = 1
  /\ pc = "loop"
  /\ i = 2
  /\ Len(calls) = 1
  /\ orders # <<>>
  /\ Len(equity_curve) = 3

(***************************************************************************)
(* C16. Walk-forward window enumeration: for data of N rows,               *)
(* run_walk_forward runs one backtest for each start index s = k *         *)
(* step_days, k = 0, 1, 2, ..., with s + train_period_days +               *)
(* test_period_days <= N, in increasing order of s, and no other; the      *)
(* train slice of a window is the rows [s, s + train), its test slice the  *)
(* rows [s + train, s + train + test), so every test row is later than     *)
(* every train row of the window; and n_windows is the number of such s.   *)
(***************************************************************************)
\* the start indices s = k * step_days at which a window fits the data
WindowStarts ==
  {s \in 0..TotalDays :
     /\ s % config.step_days = 0
     /\ s + config.train_period_days + config.test_period_days <= TotalDays}

\* control is in run_backtest
InRun ==
  pc \in {"loop", "execute", "risk", "strategy", "record", "close",
          "close_execute", "window_done"}

C16_WindowEnumeration ==
  /\ \A k \in DOMAIN results :
        LET s == (k - 1) * config.step_days
        IN  /\ s \in WindowStarts
            /\ results[k].train_start = s
            /\ results[k].train_end = s + config.train_period_days - 1
            /\ results[k].test_start = s + config.train_period_days
            /\ results[k].test_end =
                 s + config.train_period_days + config.test_period_days - 1
            /\ results[k].test_start > results[k].train_end
            /\ results[k].result.returned
            /\ Len(results[k].result.equity_curve) =
                 config.test_period_days + 1
  /\ pc \notin {"walk_idle", "walk_done"} =>
        start_idx = Len(results) * config.step_days
  /\ InRun =>
        /\ start_idx \in WindowStarts
        /\ lo = start_idx + config.train_period_days
        /\ nbars = config.test_period_days
        /\ bar # NoBar => bar.name \in lo..(lo + nbars - 1)
  /\ pc = "walk_done" =>
        /\ aggregated.n_windows = Cardinality(WindowStarts)
        /\ aggregated.windows = results
        /\ Len(results) = Cardinality(WindowStarts)

\* a walk-forward over two windows or more has returned
C16_Witness ==
  /\ pc = "walk_done"
  /\ aggregated.n_windows >= 2
  /\ Cardinality(WindowStarts) >= 2

(***************************************************************************)
(* C17. Sharpe degenerate fallback: the sharpe_ratio that run_backtest     *)
(* returns is 0 whenever there are fewer than 2 bar returns or the         *)
(* standard deviation of the bar returns is 0; it is never nan or an       *)
(* infinity in these cases.                                                *)
(***************************************************************************)
C17_SharpeFallback ==
  (/\ result.returned
   /\ \/ Len(result.returns) < 2
      \/ StdIsZero(result.returns)) =>
    result.sharpe_ratio = "0"

(***************************************************************************)
(* C18. Collaborator failure is fatal: when the strategy raises at bar i,  *)
(* run_backtest ends with the error - the equity of bar i is not recorded, *)
(* no later bar is processed, no liquidation order is placed and no result *)
(* is returned; in run_walk_forward a raise of the strategy factory or of  *)
(* a window's strategy ends the walk-forward - the windows before it are   *)
(* all there, no window is skipped, and no aggregate is returned.          *)
(***************************************************************************)
\* the last call of the strategy raised
StrategyRaised == calls # <<>> /\ calls[Len(calls)].raised

C18_CollaboratorFailureFatal ==
  /\ \A k \in DOMAIN calls :
        calls[k].raised =>
          /\ k = Len(calls)
          /\ pc = "raised"
          /\ calls[k].i = i
          /\ bar.name = lo + i
          /\ Len(equity_curve) = i + 1
          /\ Len(timestamps) = i
  /\ pc = "raised" =>
        /\ aggregated = NoResult
        /\ IF StrategyRaised
           THEN /\ result = NoResult
                /\ \A k \in DOMAIN placed_by : placed_by[k] # "close"
           ELSE /\ caller = "walk_forward"
                /\ results = <<>> => result = NoResult
                /\ results # <<>> => result = results[Len(results)].result
        /\ caller = "walk_forward" =>
              /\ start_idx = Len(results) * config.step_days
              /\ WindowFits
              /\ \A k \in DOMAIN results : results[k].result.returned

\* the strategy of the second window raised at its second bar, with a
\* Position open
C18_Witness ==
  /\ pc = "raised"
  /\ caller = "walk_forward"
  /\ results # <<>>
  /\ StrategyRaised
  /\ i = 1
  /\ positions # <<>>

(***************************************************************************)
(* C20. The reported final result reflects the end-of-run liquidation:     *)
(* the final_equity that run_backtest returns is the capital of the engine *)
(* plus the value, at the last bar, of the Positions still open after      *)
(* _close_all_positions has run, and total_return is computed from it, so  *)
(* the commission and slippage of the liquidation fills are in it.         *)
(***************************************************************************)
C20_FinalEquityAfterLiquidation ==
  result.returned =>
    LET after == CalculateEquity(capital, positions, bar)
    IN  /\ result.final_equity = after
        /\ result.total_return =
             RMul(RSub(RDiv(after, config.initial_capital), R(1)), R(100))

(***************************************************************************)
(* C21. Every order is eventually filled: when run_backtest returns, every *)
(* order of the run - of the risk overlay, of the signal interpreter or of *)
(* the liquidation - is Filled, with its fill_price and fill_timestamp     *)
(* set; none is left Pending, also not one queued during the last bar      *)
(* while no Position is open.                                              *)
(***************************************************************************)
C21_EveryOrderFilledAtReturn ==
  result.returned =>
    \A k \in DOMAIN orders :
      /\ orders[k].status = "filled"
      /\ orders[k].fill_price # NoneR
      /\ orders[k].fill_timestamp # NoneT

(***************************************************************************)
(* C22. Capital never goes negative: with initial_capital > 0, positive    *)
(* prices, 0 <= commission_rate < 1, slippage_bps >= 0 and                 *)
(* max_position_size * (1 + slippage_bps/10000) * (1 + commission_rate)    *)
(* <= 1, capital >= 0 in every reachable state, whatever the signals,      *)
(* a Sell signal for more than is held included.                           *)
(***************************************************************************)
\* what the claim requires of the configuration
SolventConfig ==
  /\ RLt(R(0), config.initial_capital)
  /\ RLe(R(0), config.commission_rate)
  /\ RLt(config.commission_rate, R(1))
  /\ RLe(R(0), config.slippage_bps)
  /\ RLe(RMul(RMul(config.max_position_size,
                   RAdd(R(1), RDiv(config.slippage_bps, R(10000)))),
              RAdd(R(1), config.commission_rate)),
         R(1))

C22_CapitalNeverNegative ==
  SolventConfig => RLe(R(0), capital)

(***************************************************************************)
(* C23. Oversell cap: a Sell fill that asks for r of a Position holding h  *)
(* closes min(r, h) - the quantity of its Trade and the quantity credited  *)
(* to capital; for r < h the Position stays with h - r and the same        *)
(* entry_price, for r >= h it is removed; no short position appears and no *)
(* order is created for the remainder r - h.                               *)
(***************************************************************************)
\* the orders that are Pending
PendingOf(os) == {k \in DOMAIN os : os[k].status = "pending"}

C23_OversellCap ==
  [][\A k \in DOMAIN orders :
       LET symbol == orders[k].symbol
           at == PosIndex(positions, symbol)
       IN  (FilledNow(k) /\ orders[k].side = "sell" /\ at # 0) =>
             LET r == orders[k].quantity
                 h == positions[at].quantity
                 f == orders'[k].fill_price
                 c == RSub(total_commission', total_commission)
                 left == PosIndex(positions', symbol)
             IN  /\ Len(trades') = Len(trades) + 1
                 /\ trades'[Len(trades')].quantity = RMin(r, h)
                 /\ RAdd(RSub(capital', capital), c) = RMul(RMin(r, h), f)
                 /\ RLt(r, h) =>
                      /\ left # 0
                      /\ positions'[left].quantity = RSub(h, r)
                      /\ positions'[left].entry_price =
                           positions[at].entry_price
                 /\ RLe(h, r) => left = 0
                 /\ \A j \in DOMAIN positions' :
                      RLt(R(0), positions'[j].quantity)
                 /\ Len(orders') = Len(orders)
                 /\ PendingOf(orders') = PendingOf(orders) \ {k}
    ]_vars

\* a Sell for less than is held has just been filled: its Trade has the
\* quantity of the order and the Position is still open
C23_Witness ==
  /\ ExecuteStep
  /\ trades # <<>>
  /\ oi > 1
  /\ LET trade == trades[Len(trades)]
         order == orders[oi - 1]
         left == PosIndex(positions, trade.symbol)
     IN  /\ order.side = "sell"
         /\ order.status = "filled"
         /\ order.symbol = trade.symbol
         /\ order.fill_timestamp = trade.exit_timestamp
         /\ order.fill_timestamp = bar.name
         /\ trade.quantity = order.quantity
         /\ left # 0
         /\ RLt(R(0), positions[left].quantity)

(***************************************************************************)
(* C24. Buy fill accounting: a Buy fill of quantity q at fill price f      *)
(* takes exactly q*f + commission from capital, with commission =          *)
(* |q * f * commission_rate|, and changes no Position other than the one   *)
(* of the order's symbol.                                                  *)
(***************************************************************************)
C24_BuyFillAccounting ==
  [][\A k \in DOMAIN orders :
       (FilledNow(k) /\ orders[k].side = "buy") =>
         LET q == orders[k].quantity
             f == orders'[k].fill_price
             commission == RAbs(RMul(RMul(q, f), config.commission_rate))
             at == PosIndex(positions, orders[k].symbol)
         IN  /\ capital' = RSub(capital, RAdd(RMul(q, f), commission))
             /\ RSub(total_commission', total_commission) = commission
             /\ Len(positions') = Len(positions) + (IF at = 0 THEN 1 ELSE 0)
             /\ \A j \in DOMAIN positions :
                  positions[j].symbol # orders[k].symbol =>
                    positions'[j] = positions[j]
             /\ PosIndex(positions', orders[k].symbol) # 0
    ]_vars

\* a Buy has just been filled at a price other than the one it asked for,
\* while a Position of another symbol was open
C24_Witness ==
  /\ ExecuteStep
  /\ oi > 1
  /\ LET order == orders[oi - 1]
     IN  /\ order.side = "buy"
         /\ order.status = "filled"
         /\ order.fill_timestamp = bar.name
         /\ RLt(R(0), config.commission_rate)
         /\ order.fill_price # order.price
         /\ \E j \in DOMAIN positions : positions[j].symbol # order.symbol

(***************************************************************************)
(* C25. Sell fill accounting: a Sell fill that finds an open Position adds *)
(* exactly closed quantity * fill price - commission to capital and        *)
(* records a Trade whose pnl is net of the same commission, the closed     *)
(* quantity being what the fill removes from the Position; so for full     *)
(* closes, partial closes and capped oversells.                            *)
(***************************************************************************)
C25_SellFillAccounting ==
  [][\A k \in DOMAIN orders :
       LET symbol == orders[k].symbol
           at == PosIndex(positions, symbol)
       IN  (FilledNow(k) /\ orders[k].side = "sell" /\ at # 0) =>
             LET pos == positions[at]
                 left == PosIndex(positions', symbol)
                 \* what the fill removes from the Position
                 closed == IF left = 0 THEN pos.quantity
                           ELSE RSub(pos.quantity, positions'[left].quantity)
                 f == orders'[k].fill_price
                 commission == RSub(total_commission', total_commission)
                 trade == trades'[Len(trades')]
             IN  /\ capital' =
                      RAdd(capital, RSub(RMul(closed, f), commission))
                 /\ Len(trades') = Len(trades) + 1
                 /\ trade.symbol = symbol
                 /\ trade.pnl =
                      RSub(RMul(RSub(f, pos.entry_price), closed), commission)
                 /\ total_pnl' = RAdd(total_pnl, trade.pnl)
    ]_vars

\* a Position has been closed by two Sell fills, a partial one and then the
\* rest, each with a commission
C25_Witness ==
  /\ ExecuteStep
  /\ oi > 1
  /\ Len(trades) >= 2
  /\ RLt(R(0), config.commission_rate)
  /\ LET first == trades[Len(trades) - 1]
         second == trades[Len(trades)]
         order == orders[oi - 1]
     IN  /\ order.side = "sell"
         /\ order.status = "filled"
         /\ order.fill_timestamp = bar.name
         /\ order.symbol = second.symbol
         /\ second.exit_timestamp = bar.name
         /\ first.symbol = second.symbol
         /\ first.entry_timestamp = second.entry_timestamp
         /\ first.exit_timestamp <= second.exit_timestamp
         /\ PosIndex(positions, second.symbol) = 0

(***************************************************************************)
(* C26. Requested price is an observed price: every order placed in a run  *)
(* - by the risk overlay, by a Buy or a Sell signal, or by the liquidation *)
(* - asks for the price its symbol has in the bar it is placed in; no      *)
(* order is placed for a symbol without a price in that bar, and none      *)
(* with a requested price of 0 in place of a missing price.  What an order *)
(* asks for never changes afterwards.                                      *)
(***************************************************************************)
C26_RequestedPriceObserved ==
  [][/\ \A k \in DOMAIN orders' :
          k > Len(orders) =>
            /\ InBar(orders'[k].symbol, bar)
            /\ orders'[k].price = bar.px[orders'[k].symbol]
            /\ orders'[k].price # R(0)
            /\ orders'[k].timestamp = bar.name
            /\ bar' = bar
     /\ \A k \in DOMAIN orders :
          k \in DOMAIN orders' =>
            /\ orders'[k].symbol = orders[k].symbol
            /\ orders'[k].price = orders[k].price
            /\ orders'[k].timestamp = orders[k].timestamp
    ]_vars

\* the run has orders of a Buy signal, of a Sell signal, of the risk overlay
\* and of the liquidation, a Sell among them at a price other than the one
\* the Buy of its symbol asked for
C26_Witness ==
  /\ \E k \in DOMAIN orders :
       placed_by[k] = "signal" /\ orders[k].side = "buy"
  /\ \E k \in DOMAIN orders :
       placed_by[k] = "signal" /\ orders[k].side = "sell"
  /\ \E k \in DOMAIN orders : placed_by[k] = "risk"
  /\ \E k \in DOMAIN orders : placed_by[k] = "close"
  /\ \E j, k \in DOMAIN orders :
       /\ orders[j].side = "buy"
       /\ orders[k].side = "sell"
       /\ orders[k].symbol = orders[j].symbol
       /\ orders[k].price # orders[j].price

(***************************************************************************)
(* C27. Capital conservation: in every reachable state with no Position    *)
(* open, capital = initial_capital + the sum of pnl over all Trades - the  *)
(* sum of the commissions of all Buy fills, and total_pnl is the sum of    *)
(* pnl over the trade list: weighted-average cost accounting neither makes *)
(* nor loses money over Buy fills, partial Sell fills and full closes.     *)
(***************************************************************************)
\* the sum of pnl over the first n Trades of ts
RECURSIVE SumPnl(_, _)
SumPnl(ts, n) ==
  IF n = 0 THEN R(0) ELSE RAdd(SumPnl(ts, n - 1), ts[n].pnl)

\* the sum of the commissions of the Buy fills among the first n orders
RECURSIVE BuyCommissions(_, _)
BuyCommissions(os, n) ==
  IF n = 0 THEN R(0)
  ELSE RAdd(BuyCommissions(os, n - 1),
            IF os[n].side = "buy" /\ os[n].status = "filled"
            THEN RAbs(RMul(RMul(os[n].quantity, os[n].fill_price),
                           config.commission_rate))
            ELSE R(0))

C27_CapitalConservation ==
  /\ total_pnl = SumPnl(trades, Len(trades))
  /\ positions = <<>> =>
       capital = RSub(RAdd(config.initial_capital, SumPnl(trades, Len(trades))),
                      BuyCommissions(orders, Len(orders)))

\* no Position is open after two Buy fills of a symbol at different prices
\* and a Sell fill on the Position they built, whose entry price is that of
\* neither fill
C27_Witness ==
  /\ positions = <<>>
  /\ trades # <<>>
  /\ capital # config.initial_capital
  /\ \E j, k \in DOMAIN orders :
       /\ j < k
       /\ orders[j].side = "buy" /\ orders[j].status = "filled"
       /\ orders[k].side = "buy" /\ orders[k].status = "filled"
       /\ orders[j].symbol = orders[k].symbol
       /\ orders[j].fill_price # orders[k].fill_price
       /\ \E t \in DOMAIN trades :
            /\ trades[t].symbol = orders[j].symbol
            /\ trades[t].exit_timestamp >= orders[k].fill_timestamp
            /\ trades[t].entry_price # orders[j].fill_price
            /\ trades[t].entry_price # orders[k].fill_price

(***************************************************************************)
(* C28. Per-position size limit: in every reachable state of a run the     *)
(* market value of each open Position, quantity x the price of the bar at  *)
(* hand, is at most max_position_size x total equity, whatever the         *)
(* signals, a Buy signal for the same symbol on consecutive bars included. *)
(***************************************************************************)
C28_PositionSizeLimit ==
  bar # NoBar =>
    \A j \in DOMAIN positions :
      InBar(positions[j].symbol, bar) =>
        RLe(RMul(positions[j].quantity, bar.px[positions[j].symbol]),
            RMul(config.max_position_size,
                 CalculateEquity(capital, positions, bar)))

(***************************************************************************)
(* C29. Unrealized P&L consistency: when the equity of a bar is recorded,  *)
(* every open Position has unrealized_pnl = (current_price - entry_price)  *)
(* x quantity, also a Position a Buy fill added to or a partial Sell fill  *)
(* reduced during that bar.                                                *)
(***************************************************************************)
C29_UnrealizedPnlConsistent ==
  pc = "record" =>
    \A j \in DOMAIN positions :
      positions[j].unrealized_pnl =
        RMul(RSub(positions[j].current_price, positions[j].entry_price),
             positions[j].quantity)

(***************************************************************************)
(* C30. Pending-queue discipline, as stated: after _execute_orders no      *)
(* order is Pending, so the risk overlay and the strategy both run with no *)
(* order Pending; and when the equity of bar i is recorded the Pending     *)
(* orders are exactly the orders placed during bar i.                      *)
(***************************************************************************)
\* the orders placed during the bar at hand
PlacedInBar == {k \in DOMAIN orders : orders[k].timestamp = bar.name}

C30_EmptyQueueForRiskAndStrategy ==
  /\ pc = "risk" => PendingOf(orders) = {}
  /\ (pc = "strategy" /\ StrategyGate(i)) => PendingOf(orders) = {}
  /\ pc = "record" => PendingOf(orders) = PlacedInBar

(***************************************************************************)
(* C30, amended. After _execute_orders no order is Pending, so the risk    *)
(* overlay runs with no order Pending and the strategy with no order       *)
(* Pending but those the risk overlay has placed in the same bar; and when *)
(* the equity of bar i is recorded the Pending orders are exactly the      *)
(* orders placed during bar i.                                             *)
(***************************************************************************)
C30_PendingQueueDiscipline ==
  /\ pc = "risk" => PendingOf(orders) = {}
  /\ pc = "strategy" =>
       \A k \in PendingOf(orders) :
         placed_by[k] = "risk" /\ orders[k].timestamp = bar.name
  /\ pc = "record" => PendingOf(orders) = PlacedInBar

\* equity is about to be recorded for a bar in which earlier orders were
\* filled and both the risk overlay and the strategy placed an order
C30_Witness ==
  /\ pc = "record"
  /\ \E k \in DOMAIN orders : orders[k].status = "filled"
  /\ \E k \in PendingOf(orders) : placed_by[k] = "risk"
  /\ \E k \in PendingOf(orders) : placed_by[k] = "signal"

(***************************************************************************)
(* C31. Entry timestamp preservation: the entry_timestamp of a Position is *)
(* the fill timestamp of the Buy that created the record and never changes *)
(* while the record exists: additive Buy fills and partial Sell fills      *)
(* leave it as it is.  A Position opened for a symbol after a full close   *)
(* has the fill timestamp of its own opening Buy.                          *)
(***************************************************************************)
C31_EntryTimestampPreserved ==
  [][\A j \in DOMAIN positions' :
       LET pos == positions'[j]
           was == {c \in DOMAIN positions : positions[c].oid = pos.oid}
       IN  IF was # {}
           THEN \A c \in was :
                  /\ positions[c].symbol = pos.symbol
                  /\ positions[c].entry_timestamp = pos.entry_timestamp
           ELSE /\ PosIndex(positions, pos.symbol) = 0
                /\ \E k \in DOMAIN orders :
                     /\ FilledNow(k)
                     /\ orders[k].side = "buy"
                     /\ orders[k].symbol = pos.symbol
                     /\ pos.oid = k
                     /\ pos.entry_timestamp = orders'[k].fill_timestamp
                     /\ pos.entry_timestamp = bar.name
    ]_vars

\* a Position is open that a Buy opened after a full close of the symbol,
\* and it has the timestamp of that Buy's fill, not that of the Position
\* closed before
C31_Witness ==
  /\ \E j \in DOMAIN positions :
       \E t \in DOMAIN trades :
         /\ trades[t].symbol = positions[j].symbol
         /\ trades[t].entry_timestamp < positions[j].entry_timestamp
         /\ trades[t].exit_timestamp <= positions[j].entry_timestamp
         /\ orders[positions[j].oid].fill_timestamp =
              positions[j].entry_timestamp
         /\ \E k \in DOMAIN orders :
              /\ k < positions[j].oid
              /\ orders[k].side = "buy" /\ orders[k].status = "filled"
              /\ orders[k].symbol = positions[j].symbol
              /\ orders[k].fill_timestamp = trades[t].entry_timestamp

(***************************************************************************)
(* C32. Double risk trigger: when in one bar the stop-loss and the         *)
(* take-profit condition both hold for an open Position, exactly two Sell  *)
(* orders of its full quantity are queued for the symbol in that bar; in   *)
(* the next bar the first closes the Position, with one Trade and one      *)
(* credit of capital, and the second makes no Trade and changes neither    *)
(* capital nor positions.                                                  *)
(***************************************************************************)
\* both conditions hold for the Position at place j in the bar at hand
BothTriggered(j) ==
  /\ InBar(positions[j].symbol, bar)
  /\ config.stop_loss_pct # NoneR
  /\ config.take_profit_pct # NoneR
  /\ LET return_pct ==
           RMul(RSub(RDiv(bar.px[positions[j].symbol],
                          positions[j].entry_price), R(1)), R(100))
     IN  /\ RLe(return_pct, RNeg(config.stop_loss_pct))
         /\ RLe(config.take_profit_pct, return_pct)

\* the orders the risk overlay placed for symbol in the bar named t
RiskSellsOf(os, by, symbol, t) ==
  {k \in DOMAIN os : /\ by[k] = "risk"
                     /\ os[k].symbol = symbol
                     /\ os[k].timestamp = t}

C32_DoubleRiskTrigger ==
  [][/\ pc = "risk" =>
          \A j \in DOMAIN positions :
            BothTriggered(j) =>
              LET K == RiskSellsOf(orders', placed_by', positions[j].symbol,
                                   bar.name)
              IN  /\ Cardinality(K) = 2
                  /\ \A k \in K :
                       /\ k > Len(orders)
                       /\ orders'[k].side = "sell"
                       /\ orders'[k].status = "pending"
                       /\ orders'[k].quantity = positions[j].quantity
     /\ \A k \in DOMAIN orders :
          (/\ FilledNow(k)
           /\ pc = "execute"
           /\ placed_by[k] = "risk"
           /\ Cardinality(RiskSellsOf(orders, placed_by, orders[k].symbol,
                                      orders[k].timestamp)) = 2) =>
            LET K == RiskSellsOf(orders, placed_by, orders[k].symbol,
                                 orders[k].timestamp)
                at == PosIndex(positions, orders[k].symbol)
            IN  IF \A j \in K : k <= j
                THEN \* the first of the two
                     /\ at # 0
                     /\ PosIndex(positions', orders[k].symbol) = 0
                     /\ Len(trades') = Len(trades) + 1
                     /\ capital' # capital
                     /\ orders'[k].fill_timestamp = orders[k].timestamp + 1
                ELSE \* the second
                     /\ \A j \in K : orders[j].status = "pending" => j = k
                     /\ at = 0
                     /\ trades' = trades
                     /\ capital' = capital
                     /\ positions' = positions
    ]_vars

\* the second of two protective Sells of one bar has just been filled,
\* after the first closed the Position
C32_Witness ==
  /\ pc = "execute"
  /\ oi > 2
  /\ placed_by[oi - 1] = "risk"
  /\ placed_by[oi - 2] = "risk"
  /\ orders[oi - 1].status = "filled"
  /\ orders[oi - 2].status = "filled"
  /\ orders[oi - 1].symbol = orders[oi - 2].symbol
  /\ orders[oi - 1].timestamp = orders[oi - 2].timestamp
  /\ orders[oi - 1].fill_timestamp = bar.name
  /\ orders[oi - 2].fill_timestamp = bar.name
  /\ trades # <<>>
  /\ trades[Len(trades)].exit_timestamp = bar.name
  /\ PosIndex(positions, orders[oi - 1].symbol) = 0

(***************************************************************************)
(* C33. Fill price rule: with market orders a Buy fills at its requested   *)
(* price x (1 + slippage_bps/10000) and a Sell at its requested price x    *)
(* (1 - slippage_bps/10000), so that for slippage_bps >= 0 and a positive  *)
(* requested price a Buy never fills below and a Sell never above its      *)
(* requested price; with limit orders the fill price is the requested      *)
(* price.  Either way the fill price is a function of the price recorded   *)
(* when the order was placed, whatever the price of the bar of the fill.   *)
(***************************************************************************)
C33_FillPriceRule ==
  [][\A k \in DOMAIN orders :
       FilledNow(k) =>
         LET requested == orders[k].price
             f == orders'[k].fill_price
             slippage == RDiv(config.slippage_bps, R(10000))
         IN  /\ orders'[k].price = requested
             /\ IF config.use_market_orders
                THEN IF orders[k].side = "buy"
                     THEN /\ f = RMul(requested, RAdd(R(1), slippage))
                          /\ RLe(requested, f)
                     ELSE /\ f = RMul(requested, RSub(R(1), slippage))
                          /\ RLe(f, requested)
                ELSE f = requested
    ]_vars

\* a limit order has just been filled at its requested price, in a bar
\* whose price for the symbol is another, with a slippage_bps that is not 0
C33_Witness ==
  /\ ExecuteStep
  /\ oi > 1
  /\ ~config.use_market_orders
  /\ config.slippage_bps # R(0)
  /\ LET order == orders[oi - 1]
     IN  /\ order.status = "filled"
         /\ order.fill_timestamp = bar.name
         /\ InBar(order.symbol, bar)
         /\ bar.px[order.symbol] # order.price
         /\ order.fill_price = order.price

(***************************************************************************)
(* C34. Run-level cost totals: at every point of a run total_commission is *)
(* the sum over the Filled orders of |quantity x fill price x              *)
(* commission_rate| and total_slippage the sum over the Filled orders of   *)
(* |fill price - requested price| x quantity, the quantity being the one   *)
(* the order asked for; neither total decreases during a run, and          *)
(* total_slippage stays 0 with limit orders.                               *)
(***************************************************************************)
\* the sum of |quantity x fill price x rate| over the Filled orders among
\* the first n of os
RECURSIVE CommissionOfFills(_, _, _)
CommissionOfFills(os, n, rate) ==
  IF n = 0 THEN R(0)
  ELSE RAdd(CommissionOfFills(os, n - 1, rate),
            IF os[n].status = "filled"
            THEN RAbs(RMul(RMul(os[n].quantity, os[n].fill_price), rate))
            ELSE R(0))

\* the sum of |fill price - requested price| x quantity over the Filled
\* orders among the first n of os
RECURSIVE SlippageOfFills(_, _)
SlippageOfFills(os, n) ==
  IF n = 0 THEN R(0)
  ELSE RAdd(SlippageOfFills(os, n - 1),
            IF os[n].status = "filled"
            THEN RMul(RAbs(RSub(os[n].fill_price, os[n].price)),
                      os[n].quantity)
            ELSE R(0))

CostTotalsMatch(os, commission, slippage) ==
  /\ commission = CommissionOfFills(os, Len(os), config.commission_rate)
  /\ slippage = SlippageOfFills(os, Len(os))
  /\ ~config.use_market_orders => slippage = R(0)

C34_RunLevelCostTotals ==
  [][/\ CostTotalsMatch(orders, total_commission, total_slippage)
     /\ CostTotalsMatch(orders', total_commission', total_slippage')
     /\ pc \notin {"idle", "done"} =>
          /\ RLe(total_commission, total_commission')
          /\ RLe(total_slippage, total_slippage')
    ]_vars

\* with market orders and slippage a Buy and a Sell have been filled, one of
\* them a Sell that found no Position, and both totals have grown
C34_Witness ==
  /\ config.use_market_orders
  /\ RLt(R(0), total_slippage)
  /\ RLt(R(0), total_commission)
  /\ \E k \in DOMAIN orders :
       orders[k].side = "buy" /\ orders[k].status = "filled"
  /\ \E k \in DOMAIN orders :
       orders[k].side = "sell" /\ orders[k].status = "filled"
  /\ Len(trades) < Cardinality({k \in DOMAIN orders :
                                  /\ orders[k].side = "sell"
                                  /\ orders[k].status = "filled"})

(***************************************************************************)
(* C35. The trade ledger is append-only and exact: during a run one Trade  *)
(* is appended for each Sell fill that finds an open Position of its       *)
(* symbol, and none for a Buy fill or for a Sell fill without a Position;  *)
(* a Trade in the list is never modified or removed, and its entry_price   *)
(* is the entry price the Position had at that fill.                       *)
(***************************************************************************)
\* the Sell fills of this step that find a Position
SellFillsOnPosition ==
  {k \in DOMAIN orders : /\ FilledNow(k)
                         /\ orders[k].side = "sell"
                         /\ PosIndex(positions, orders[k].symbol) # 0}

C35_TradeLedgerAppendOnly ==
  [][pc \notin {"idle", "done"} =>
       /\ Len(trades') = Len(trades) + Cardinality(SellFillsOnPosition)
       /\ \A t \in DOMAIN trades : trades'[t] = trades[t]
       /\ \A k \in SellFillsOnPosition :
            LET trade == trades'[Len(trades')]
                pos == positions[PosIndex(positions, orders[k].symbol)]
            IN  /\ trade.symbol = orders[k].symbol
                /\ trade.entry_price = pos.entry_price
                /\ trade.exit_timestamp = orders'[k].fill_timestamp
    ]_vars

\* the ledger holds two Trades of Positions with different entry prices,
\* after Buy fills and a Sell fill that found no Position
C35_Witness ==
  /\ Len(trades) >= 2
  /\ \E s, t \in DOMAIN trades : trades[s].entry_price # trades[t].entry_price
  /\ \E t \in DOMAIN trades : trades[t].entry_price # trades[t].exit_price
  /\ Cardinality({k \in DOMAIN orders :
                    orders[k].side = "sell" /\ orders[k].status = "filled"})
       > Len(trades)

(***************************************************************************)
(* C36. Walk-forward termination: run_walk_forward ends on every finite    *)
(* data series for every window configuration with train_period_days >= 0, *)
(* test_period_days >= 0 and step_days >= 0, provided the calls of the     *)
(* strategy and of the factory return; the start index of the window       *)
(* grows in every iteration until the window no longer fits in the data.   *)
(* The loop ends because of that growth: an iteration that leaves the      *)
(* start index where it was is followed by the same iteration again.       *)
(***************************************************************************)
C36_WindowStartAdvances ==
  [][pc = "window_done" =>
       /\ start_idx' > start_idx
       /\ pc' = "walk_loop"]_vars

(***************************************************************************)
(* C37. Sell signal gating: _process_signal queues a Sell order only if a  *)
(* Position of the signal's symbol exists at that moment and the quantity  *)
(* - the one the signal names, or the whole quantity of the Position when  *)
(* it names none - is > 0; a Sell signal for a symbol without a Position   *)
(* and a signal whose action is neither buy nor sell queue no order; the   *)
(* signal interpreter queues one order per bar at most.                    *)
(***************************************************************************)
C37_SellSignalGating ==
  [][pc = "strategy" =>
       LET s == strategy_signal'
           new == {k \in DOMAIN orders' : k > Len(orders)}
           at == PosIndex(positions, s.symbol)
       IN  /\ Cardinality(new) <= 1
           /\ \A k \in new :
                /\ placed_by'[k] = "signal"
                /\ orders'[k].symbol = s.symbol
                /\ orders'[k].side = s.action
                /\ orders'[k].side = "sell" =>
                     /\ at # 0
                     /\ orders'[k].quantity =
                          (IF s.quantity = NoneR THEN positions[at].quantity
                           ELSE s.quantity)
                     /\ RLt(R(0), orders'[k].quantity)
           /\ (s.action = "sell" /\ at = 0) => new = {}
           /\ (s.action = "sell" /\ s.quantity # NoneR
                 /\ ~RLt(R(0), s.quantity)) => new = {}
           /\ s.action \notin {"buy", "sell"} => new = {}
    ]_vars

\* the strategy has just asked to sell part of a Position, and the Sell of
\* that quantity is queued
C37_Witness ==
  /\ pc = "record"
  /\ strategy_signal.action = "sell"
  /\ strategy_signal.quantity # NoneR
  /\ orders # <<>>
  /\ LET order == orders[Len(orders)]
         at == PosIndex(positions, strategy_signal.symbol)
     IN  /\ at # 0
         /\ placed_by[Len(orders)] = "signal"
         /\ order.side = "sell"
         /\ order.status = "pending"
         /\ order.timestamp = bar.name
         /\ order.quantity = strategy_signal.quantity
         /\ RLt(order.quantity, positions[at].quantity)

====
